---- MODULE Spec2Model ----
(***************************************************************************)
(* A model of the kvstructs key / value encoding layer.                    *)
(*                                                                         *)
(* Bytes are the integers 0..255.  A byte string (&[u8], Bytes, Vec<u8>)   *)
(* is a sequence of bytes.  A u64 is the sequence of its eight base-256    *)
(* digits, least significant first, so that every u64 operation the code   *)
(* uses (subtraction, shifts, or, truncation, to_be_bytes) is computed on  *)
(* the full 64-bit width.                                                  *)
(***************************************************************************)
EXTENDS Integers, Sequences, FiniteSets

VARIABLES
    kind,   \* which family of operations this run exercises
    pc,     \* the last operation that ran ("start" before any)
    ka, kb, \* key family: the byte strings the two keys were built from
    a, b,   \* key family: the data of the two Key objects
    ts,     \* key family: <<ta, tb>>, each <<>> or <<t>>, the timestamp appended
    val,    \* value family: the Value under test
    sz,     \* value family: <<>> or <<encoded_size()>>
    enc,    \* value family: <<>> or <<bytes written by encode()>>
    ev,     \* value family: <<>> or <<EncodedValue from to_encoded()>>
    dec,    \* value family: <<>> or <<decoded Value>>
    x,      \* varint family: <<>> or <<the u64 that was encoded>>
    vput,   \* varint family: the bytes the encoder pushed
    buf,    \* varint family: the buffer handed to binary_uvarint
    build,  \* varint family: "debug" (overflow checks) or "release"
    out,    \* the result of the last operation
    rp, rq, \* raw pointers: <<>> or <<RawKeyPointer / RawValuePointer>>
    km,     \* builder family: the data of the KeyMut
    kmk,    \* builder family: the user-key bytes the KeyMut started with
    stamps  \* builder family: the timestamps passed to it so far, in order

vars ==
    <<kind, pc, ka, kb, a, b, ts, val, sz, enc, ev, dec, x, vput, buf, build, out,
      rp, rq, km, kmk, stamps>>

(***************************************************************************)
(* Bounds of the model.                                                    *)
(***************************************************************************)
MaxKeyLen == 2      \* longest user key drawn
PadLen == 6         \* length of the padding that makes keys of 6..8 bytes
MaxPayloadLen == 2  \* longest value payload drawn
MaxBufLen == 2      \* longest free-form varint buffer drawn
MaxCont == 12       \* most continuation bytes in a drawn varint buffer
MaxStamps == 2      \* most set_timestamp calls made on one KeyMut

(***************************************************************************)
(* Program constants.                                                      *)
(***************************************************************************)
TIMESTAMP_SIZE == 8
MAX_VARINT_LEN64 == 10
META_OFFSET == 0
USER_META_OFFSET == 1
EXPIRATION_OFFSET == 2

(***************************************************************************)
(* Bytes and byte strings.                                                 *)
(***************************************************************************)
Min(m, n) == IF m <= n THEN m ELSE n

BitOf(n, i) == (n \div (2 ^ i)) % 2

\* u8 & u8
ByteAnd(m, n) ==
    BitOf(m, 0) * BitOf(n, 0) + 2 * BitOf(m, 1) * BitOf(n, 1)
    + 4 * BitOf(m, 2) * BitOf(n, 2) + 8 * BitOf(m, 3) * BitOf(n, 3)
    + 16 * BitOf(m, 4) * BitOf(n, 4) + 32 * BitOf(m, 5) * BitOf(n, 5)
    + 64 * BitOf(m, 6) * BitOf(n, 6) + 128 * BitOf(m, 7) * BitOf(n, 7)

\* u8 | u8
ByteOr(m, n) == m + n - ByteAnd(m, n)

\* s[from..] with a 0-based start, as Rust slices it (from <= len)
SliceFrom(s, from) == SubSeq(s, from + 1, Len(s))

\* s[..to] with a 0-based exclusive end
SliceTo(s, to) == SubSeq(s, 1, to)

IntCmp(m, n) == IF m < n THEN "Less" ELSE IF m = n THEN "Equal" ELSE "Greater"

\* <[u8] as Ord>::cmp: the first differing byte decides, then the lengths
SliceCmp(s, t) ==
    LET l == Min(Len(s), Len(t))
        diff == {i \in 1..l : s[i] # t[i]}
    IN  IF diff = {}
        THEN IntCmp(Len(s), Len(t))
        ELSE LET i == CHOOSE j \in diff : \A k \in diff : j <= k
             IN  IntCmp(s[i], t[i])

(***************************************************************************)
(* u64 arithmetic on eight base-256 digits, least significant first.       *)
(***************************************************************************)
Limbs == 1..TIMESTAMP_SIZE

U64Zero == [i \in Limbs |-> 0]
U64Max == [i \in Limbs |-> 255]

\* b as u64
U64OfByte(n) == [i \in Limbs |-> IF i = 1 THEN n ELSE 0]

\* x as u8
U64AsByte(n) == n[1]

U64Or(m, n) == [i \in Limbs |-> ByteOr(m[i], n[i])]

\* m << s for 0 <= s < 64
U64Shl(m, s) ==
    LET q == s \div 8
        r == s % 8
    IN  [i \in Limbs |->
            (IF i - q >= 1 THEN (m[i - q] * (2 ^ r)) % 256 ELSE 0)
            + (IF i - q - 1 >= 1 THEN m[i - q - 1] \div (2 ^ (8 - r)) ELSE 0)]

\* m >> s for 0 <= s < 64
U64Shr(m, s) ==
    LET q == s \div 8
        r == s % 8
    IN  [i \in Limbs |->
            (IF i + q <= TIMESTAMP_SIZE THEN m[i + q] \div (2 ^ r) ELSE 0)
            + (IF i + q + 1 <= TIMESTAMP_SIZE
               THEN (m[i + q + 1] % (2 ^ r)) * (2 ^ (8 - r)) ELSE 0)]

\* m < n as unsigned 64-bit numbers
U64Lt(m, n) ==
    \E i \in Limbs : m[i] < n[i] /\ \A j \in Limbs : j > i => m[j] = n[j]

RECURSIVE SubLimbs(_, _, _, _)
SubLimbs(m, n, i, borrow) ==
    IF i > TIMESTAMP_SIZE THEN <<>>
    ELSE LET d == m[i] - n[i] - borrow
         IN  IF d < 0 THEN <<d + 256>> \o SubLimbs(m, n, i + 1, 1)
                      ELSE <<d>> \o SubLimbs(m, n, i + 1, 0)

\* m - n, wrapping at 2^64
U64Sub(m, n) == SubLimbs(m, n, 1, 0)

\* u64::to_be_bytes
ToBeBytes(n) == [i \in Limbs |-> n[TIMESTAMP_SIZE + 1 - i]]

(***************************************************************************)
(* Key codec (key.rs).                                                     *)
(***************************************************************************)
\* usize::saturating_sub
SaturatingSub(m, n) == IF m >= n THEN m - n ELSE 0

\* usize::checked_sub: <<>> is None, <<d>> is Some(d)
CheckedSub(m, n) == IF m >= n THEN <<m - n>> ELSE <<>>

\* a decoder that reads the eight bytes least significant first
u64_little_endian(s) ==
    LET term(k) == U64Shl(U64OfByte(s[k + 1]), 8 * k)
    IN  U64Or(term(7), U64Or(term(6), U64Or(term(5), U64Or(term(4),
        U64Or(term(3), U64Or(term(2), U64Or(term(1), term(0))))))))

\* u64_big_endian(b): b[7] | b[6] << 8 | ... | b[0] << 56 (0-based b)
u64_big_endian(s) ==
    LET term(k) == U64Shl(U64OfByte(s[k + 1]), 8 * (7 - k))
    IN  U64Or(term(7), U64Or(term(6), U64Or(term(5), U64Or(term(4),
        U64Or(term(3), U64Or(term(2), U64Or(term(1), term(0))))))))

\* a with_timestamp that appends ts itself, not u64::MAX - ts
with_timestamp_raw(data, t) == data \o ToBeBytes(t)

\* Key::with_timestamp: data chained with (u64::MAX - ts).to_be_bytes()
with_timestamp(data, t) == data \o ToBeBytes(U64Sub(U64Max, t))

\* a compare_key_in that stops at the key parts
compare_key_in_no_ts(me, other) ==
    LET sb == SaturatingSub(Len(me), TIMESTAMP_SIZE)
        ob == SaturatingSub(Len(other), TIMESTAMP_SIZE)
    IN  SliceCmp(SliceTo(me, sb), SliceTo(other, ob))

\* compare_key_in: split both operands at len.saturating_sub(8)
compare_key_in(me, other) ==
    LET sb == SaturatingSub(Len(me), TIMESTAMP_SIZE)
        ob == SaturatingSub(Len(other), TIMESTAMP_SIZE)
        s_key_part == SliceTo(me, sb)
        s_ts_part == SliceFrom(me, sb)
        o_key_part == SliceTo(other, ob)
        o_ts_part == SliceFrom(other, ob)
        c == SliceCmp(s_key_part, o_key_part)
    IN  IF c = "Equal" THEN SliceCmp(s_ts_part, o_ts_part) ELSE c

\* same_key_in: note that the None arm of `o` yields `me`, as in the source
same_key_in(me, other) ==
    LET sl == Len(me)
        ol == Len(other)
    IN  IF sl # ol THEN FALSE
        ELSE LET s == IF CheckedSub(sl, TIMESTAMP_SIZE) = <<>> THEN me
                      ELSE SliceTo(me, CheckedSub(sl, TIMESTAMP_SIZE)[1])
                 o == IF CheckedSub(ol, TIMESTAMP_SIZE) = <<>> THEN me
                      ELSE SliceTo(other, CheckedSub(ol, TIMESTAMP_SIZE)[1])
             IN  s = o

\* a parse_key that also keeps a key of exactly eight bytes whole
parse_key_keep8(data) ==
    IF Len(data) <= TIMESTAMP_SIZE THEN data
    ELSE SliceTo(data, Len(data) - TIMESTAMP_SIZE)

\* KeyExt::parse_key
parse_key(data) ==
    LET d == CheckedSub(Len(data), TIMESTAMP_SIZE)
    IN  IF d = <<>> THEN data ELSE SliceTo(data, d[1])

\* KeyExt::parse_timestamp
parse_timestamp(data) ==
    LET data_len == Len(data)
    IN  IF data_len <= TIMESTAMP_SIZE THEN U64Zero
        ELSE U64Sub(U64Max, u64_big_endian(SliceFrom(data, data_len - TIMESTAMP_SIZE)))

(***************************************************************************)
(* Key builder (key_mut.rs) and the other timestamp writers.               *)
(***************************************************************************)
\* BufMut::put_u64: the value's eight bytes, big-endian, appended
put_u64(data, n) == data \o ToBeBytes(n)

\* KeyMut::with_timestamp
KeyMut_with_timestamp(data, t) == put_u64(data, t)

\* KeyMutExt::set_timestamp: append below eight bytes, otherwise overwrite
\* the last eight bytes
set_timestamp(data, t) ==
    LET d == CheckedSub(Len(data), TIMESTAMP_SIZE)
    IN  IF d = <<>> THEN put_u64(data, t)
        ELSE SliceTo(data, d[1]) \o ToBeBytes(t)

\* KeyMut::freeze
freeze(data) == data

\* Duration::as_secs of st.duration_since(UNIX_EPOCH): whole seconds, the
\* nanoseconds dropped
as_secs(st) == st.secs

\* Key::with_system_time
with_system_time(data, st) == data \o ToBeBytes(as_secs(st))

(***************************************************************************)
(* Eq, Ord and Hash of the key types (key.rs, key_mut.rs).                 *)
(***************************************************************************)
KeyTypes == {"Key", "KeyRef", "KeyMut"}

\* <[u8] as Hash>::hash, reached from Bytes, BytesMut and &[u8]: what is
\* written to the Hasher is the length, then the bytes
slice_hash(data) == <<Len(data)>> \o data

\* PartialEq::eq of Key, KeyRef and KeyMut
Key_eq(ty, me, other) ==
    CASE ty = "Key" -> same_key_in(me, other)
      [] ty = "KeyRef" -> same_key_in(me, other)
      [] ty = "KeyMut" -> same_key_in(me, other)

\* Ord::cmp of Key, KeyRef and KeyMut
Key_cmp(ty, me, other) ==
    CASE ty = "Key" -> compare_key_in(me, other)
      [] ty = "KeyRef" -> compare_key_in(me, other)
      [] ty = "KeyMut" -> compare_key_in(me, other)

\* Hash::hash of Key, KeyRef (derived) and KeyMut: the whole data is hashed
Key_hash(ty, me) ==
    CASE ty = "Key" -> slice_hash(me)
      [] ty = "KeyRef" -> slice_hash(me)
      [] ty = "KeyMut" -> slice_hash(me)

(***************************************************************************)
(* Prefix / suffix utilities (key.rs, lib.rs macros).                      *)
(***************************************************************************)
\* the outcome of an operation that can fault: it returned r, or it panicked
Returned(r) == [panic |-> FALSE, v |-> r]
Faulted == [panic |-> TRUE]

\* m - n on usize for m, n >= 0: with overflow checks an underflow panics
\* (<<>>); without them it wraps, and the bit pattern 2^64 - k is written -k
UsizeSub(m, n, bld) ==
    IF m >= n THEN <<m - n>>
    ELSE IF bld = "debug" THEN <<>>
    ELSE <<m - n>>

\* m <= n on usize, a negative number standing for 2^64 minus its magnitude
UsizeLe(m, n) ==
    IF (m < 0) = (n < 0) THEN m <= n ELSE n < 0

\* a has_prefix that also rejects a prefix as long as the source
has_prefix_strict(me, other) ==
    LET src == parse_key(me)
        prefix == parse_key(other)
        pl == Len(prefix)
    IN  IF Len(src) <= pl THEN FALSE
        ELSE SubSeq(src, 1, pl) = prefix

\* KeyExt::has_prefix
has_prefix(me, other) ==
    LET src == parse_key(me)
        prefix == parse_key(other)
        pl == Len(prefix)
    IN  IF Len(src) < pl THEN FALSE
        ELSE SubSeq(src, 1, pl) = prefix

\* KeyExt::has_suffix: pl is suffix.len() - 1, and the source is sliced
\* from pl to its end
has_suffix(me, other, bld) ==
    LET src == parse_key(me)
        suffix == parse_key(other)
        pl == UsizeSub(Len(suffix), 1, bld)
    IN  IF pl = <<>> THEN Faulted
        ELSE IF UsizeLe(Len(src), pl[1]) THEN Returned(FALSE)
        ELSE Returned(SliceFrom(src, pl[1]) = suffix)

\* the loop of longest_prefix: n becomes the first i with k1[i] != k2[i]
RECURSIVE PrefixLoop(_, _, _, _, _)
PrefixLoop(k1, k2, i, max, n) ==
    IF i >= max THEN n
    ELSE IF k1[i + 1] # k2[i + 1] THEN i
    ELSE PrefixLoop(k1, k2, i + 1, max, n)

\* KeyExt::longest_prefix: n starts at max - 1; &k1[..n] faults when n is
\* beyond k1
longest_prefix(me, other, bld) ==
    LET k1 == parse_key(me)
        k2 == parse_key(other)
        max == Min(Len(k1), Len(k2))
        n0 == UsizeSub(max, 1, bld)
    IN  IF n0 = <<>> THEN Faulted
        ELSE LET n == PrefixLoop(k1, k2, 0, max, n0[1])
             IN  IF UsizeLe(n, Len(k1)) THEN Returned(SliceTo(k1, n))
                 ELSE Faulted

\* the loop of longest_suffix: n becomes the first i with
\* k1[k1_len - i - 1] != k2[k2_len - i - 1]
RECURSIVE SuffixLoop(_, _, _, _, _)
SuffixLoop(k1, k2, i, max, n) ==
    IF i >= max THEN n
    ELSE IF k1[(Len(k1) - i - 1) + 1] # k2[(Len(k2) - i - 1) + 1] THEN i
    ELSE SuffixLoop(k1, k2, i + 1, max, n)

\* a longest_suffix that slices k1 from max - n in both branches
longest_suffix_front(me, other) ==
    LET k1 == parse_key(me)
        k2 == parse_key(other)
        max == Min(Len(k1), Len(k2))
        n == SuffixLoop(k1, k2, 0, max, max)
    IN  SliceFrom(k1, max - n)

\* KeyExt::longest_suffix
longest_suffix(me, other) ==
    LET k1 == parse_key(me)
        k1_len == Len(k1)
        k2 == parse_key(other)
        k2_len == Len(k2)
    IN  IF k1_len < k2_len
        THEN LET max == k1_len
                 n == SuffixLoop(k1, k2, 0, max, max)
             IN  SliceFrom(k1, max - n)
        ELSE LET max == k2_len
                 n == SuffixLoop(k1, k2, 0, max, max)
             IN  SliceFrom(k1, ((k1_len - k2_len) + max) - n)

(***************************************************************************)
(* Varint codec (lib.rs).                                                  *)
(***************************************************************************)
Builds == {"debug", "release"}

\* !n on a usize, read as a two's-complement number: the bit pattern
\* 2^64 - 1 - n is written -(n + 1)
UsizeNot(n) == (-n) - 1

\* m << s as the build computes it: with overflow checks a shift amount of
\* 64 or more panics (<<>>), without them the amount is masked to 6 bits
CheckedShl(m, s, bld) ==
    IF s >= 8 * TIMESTAMP_SIZE
    THEN IF bld = "debug" THEN <<>> ELSE <<U64Shl(m, s % (8 * TIMESTAMP_SIZE))>>
    ELSE <<U64Shl(m, s)>>

Panicked == [panic |-> TRUE, x |-> U64Zero, n |-> 0]

\* a decoding loop that does not mask the continuation bit off
RECURSIVE UvarintLoopNoMask(_, _, _, _, _)
UvarintLoopNoMask(src, idx, acc, s, bld) ==
    IF idx >= Len(src) THEN [panic |-> FALSE, x |-> U64Zero, n |-> 0]
    ELSE LET byte == src[idx + 1]
         IN  IF byte < 128
             THEN IF idx >= MAX_VARINT_LEN64 \/ (idx = MAX_VARINT_LEN64 - 1 /\ byte > 1)
                  THEN [panic |-> FALSE, x |-> U64Zero, n |-> UsizeNot(idx + 1)]
                  ELSE LET sh == CheckedShl(U64OfByte(byte), s, bld)
                       IN  IF sh = <<>> THEN Panicked
                           ELSE [panic |-> FALSE, x |-> U64Or(acc, sh[1]), n |-> idx + 1]
             ELSE LET sh == CheckedShl(U64OfByte(byte), s, bld)
                  IN  IF sh = <<>> THEN Panicked
                      ELSE UvarintLoopNoMask(src, idx + 1, U64Or(acc, sh[1]), s + 7, bld)

RECURSIVE UvarintLoop(_, _, _, _, _)
UvarintLoop(src, idx, acc, s, bld) ==
    IF idx >= Len(src) THEN [panic |-> FALSE, x |-> U64Zero, n |-> 0]
    ELSE LET byte == src[idx + 1]
         IN  IF byte < 128
             THEN IF idx >= MAX_VARINT_LEN64 \/ (idx = MAX_VARINT_LEN64 - 1 /\ byte > 1)
                  THEN [panic |-> FALSE, x |-> U64Zero, n |-> UsizeNot(idx + 1)]
                  ELSE LET sh == CheckedShl(U64OfByte(byte), s, bld)
                       IN  IF sh = <<>> THEN Panicked
                           ELSE [panic |-> FALSE, x |-> U64Or(acc, sh[1]), n |-> idx + 1]
             ELSE LET sh == CheckedShl(U64OfByte(ByteAnd(byte, 127)), s, bld)
                  IN  IF sh = <<>> THEN Panicked
                      ELSE UvarintLoop(src, idx + 1, U64Or(acc, sh[1]), s + 7, bld)

\* binary_uvarint(buf) -> (u64, usize)
binary_uvarint(src, bld) == UvarintLoop(src, 0, U64Zero, 0, bld)

\* put_binary_uvarint_to_vec(vec, x): the vector after the pushes
RECURSIVE put_binary_uvarint_to_vec(_, _)
put_binary_uvarint_to_vec(vec, n) ==
    IF ~U64Lt(n, U64OfByte(128))
    THEN put_binary_uvarint_to_vec(Append(vec, ByteOr(U64AsByte(n), 128)), U64Shr(n, 7))
    ELSE Append(vec, U64AsByte(n))

RECURSIVE AllocateLoop(_, _)
AllocateLoop(vec, n) ==
    IF ~U64Lt(n, U64OfByte(128))
    THEN AllocateLoop(Append(vec, ByteOr(U64AsByte(n), 128)), U64Shr(n, 7))
    ELSE Append(vec, U64AsByte(n))

\* binary_uvarint_allocate(x) -> Vec<u8>
binary_uvarint_allocate(n) == AllocateLoop(<<>>, n)

(***************************************************************************)
(* Value codec (value.rs, value_enc.rs).  A Value is a record              *)
(* [meta, user_meta, expires_at, version, value]; an EncodedValue is       *)
(* [data, expires_sz].                                                     *)
(***************************************************************************)
\* a size loop that counts whole bytes, not 7-bit groups
RECURSIVE SizeLoopBytes(_, _)
SizeLoopBytes(n, cnt) ==
    LET n2 == U64Shr(n, 8)
    IN  IF n2 = U64Zero THEN cnt + 1 ELSE SizeLoopBytes(n2, cnt + 1)

RECURSIVE SizeLoop(_, _)
SizeLoop(n, cnt) ==
    LET n2 == U64Shr(n, 7)
    IN  IF n2 = U64Zero THEN cnt + 1 ELSE SizeLoop(n2, cnt + 1)

\* size_variant(x)
size_variant(n) == SizeLoop(n, 0)

\* ValueExt::encoded_size for Value
encoded_size(v) ==
    LET s == Len(v.value) + 2
        e == size_variant(v.expires_at)
    IN  s + e

\* an encode that writes expires_at as eight fixed bytes (put_u64)
encode_fixed(v) ==
    <<v.meta>> \o <<v.user_meta>> \o ToBeBytes(v.expires_at) \o v.value

\* ValueExt::encode for Value: the bytes put into buf, in order
encode(v) ==
    <<v.meta>> \o <<v.user_meta>> \o binary_uvarint_allocate(v.expires_at) \o v.value

\* a to_encoded that caches the length of the whole header as expires_sz
to_encoded_header_len(v) ==
    LET data == put_binary_uvarint_to_vec(<<v.meta, v.user_meta>>, v.expires_at)
    IN  [data |-> data \o v.value, expires_sz |-> Len(data)]

\* ValueExt::to_encoded for Value
to_encoded(v) ==
    LET data == put_binary_uvarint_to_vec(<<v.meta, v.user_meta>>, v.expires_at)
        expires_sz == Len(data) - 2
    IN  [data |-> data \o v.value, expires_sz |-> expires_sz]

\* <EncodedValue as ValueExt>::parse_value
encoded_parse_value(e) == SliceFrom(e.data, EXPIRATION_OFFSET + e.expires_sz)

\* <EncodedValue as ValueExt>::get_meta
encoded_get_meta(e) == e.data[META_OFFSET + 1]

\* <EncodedValue as ValueExt>::get_user_meta
encoded_get_user_meta(e) == e.data[USER_META_OFFSET + 1]

\* <EncodedValue as ValueExt>::get_expires_at: the first component of
\* binary_uvarint, unless the decoder panics
encoded_get_expires_at(e, bld) ==
    LET r == binary_uvarint(SliceFrom(e.data, EXPIRATION_OFFSET), bld)
    IN  IF r.panic THEN [panic |-> TRUE] ELSE [panic |-> FALSE, v |-> r.x]

\* EncodedValue::len
encoded_len(e) == Len(e.data)

\* a decode body that takes the payload from after a fixed eight-byte
\* expiration field
DecodeAtFixed(src, moff, uoff, eoff, bld) ==
    IF Len(src) < eoff THEN <<>>
    ELSE LET r == binary_uvarint(SliceFrom(src, eoff), bld)
         IN  IF r.panic \/ r.n < 0 \/ eoff + TIMESTAMP_SIZE > Len(src) THEN <<>>
             ELSE <<[meta |-> src[moff + 1],
                     user_meta |-> src[uoff + 1],
                     expires_at |-> r.x,
                     version |-> U64Zero,
                     value |-> SliceFrom(src, eoff + TIMESTAMP_SIZE)]>>

\* the body shared by decode, decode_bytes and decode_value: <<>> when an
\* index is out of range, <<Value>> otherwise
DecodeAt(src, moff, uoff, eoff, bld) ==
    IF Len(src) < eoff THEN <<>>
    ELSE LET r == binary_uvarint(SliceFrom(src, eoff), bld)
         IN  IF r.panic \/ r.n < 0 \/ eoff + r.n > Len(src) THEN <<>>
             ELSE <<[meta |-> src[moff + 1],
                     user_meta |-> src[uoff + 1],
                     expires_at |-> r.x,
                     version |-> U64Zero,
                     value |-> SliceFrom(src, eoff + r.n)]>>

\* ValueExt::decode(src: &[u8])
decode(src, bld) == DecodeAt(src, 0, 1, 2, bld)

\* ValueExt::decode_bytes(src: Bytes)
decode_bytes(src, bld) == DecodeAt(src, 0, 1, 2, bld)

\* EncodedValue::decode_value
decode_value(e, bld) ==
    DecodeAt(e.data, META_OFFSET, USER_META_OFFSET, EXPIRATION_OFFSET, bld)

\* <Value as Into<Bytes>>::into: meta, user_meta, put_u64(expires_at), value
into_bytes(v) == put_u64(<<v.meta, v.user_meta>>, v.expires_at) \o v.value

(***************************************************************************)
(* Raw pointer views (raw_key_pointer.rs, raw_value_pointer.rs).  An       *)
(* address is an allocation and an offset into it; the allocations are the *)
(* buffers of the two keys, the buffer a Value was encoded into, and a     *)
(* copy of that buffer.                                                    *)
(***************************************************************************)
\* the bytes an allocation holds
Allocation(id) ==
    CASE id = "a" -> a
      [] id = "b" -> b
      [] id = "enc" -> enc[1]
      [] id = "copy" -> enc[1]

\* slice.as_ptr()
as_ptr(id) == [alloc |-> id, off |-> 0]

\* ptr.add(n)
ptr_add(ptr, n) == [alloc |-> ptr.alloc, off |-> ptr.off + n]

\* slice::from_raw_parts(ptr, l)
from_raw_parts(ptr, l) == SubSeq(Allocation(ptr.alloc), ptr.off + 1, ptr.off + l)

\* RawKeyPointer::new
RawKeyPointer_new(ptr, len) == [ptr |-> ptr, l |-> len]

\* From<KeyRef> for RawKeyPointer, the KeyRef borrowing the allocation id
RawKeyPointer_from(id) == [ptr |-> as_ptr(id), l |-> Len(Allocation(id))]

\* <RawKeyPointer as Deref>::deref
RawKeyPointer_deref(p) == from_raw_parts(p.ptr, p.l)

\* PartialEq::eq of RawKeyPointer
RawKeyPointer_eq(p, q) == p.ptr = q.ptr

\* Ord::cmp of RawKeyPointer: as_key_ref().cmp(..), which is compare_key
RawKeyPointer_cmp(p, q) ==
    compare_key_in(RawKeyPointer_deref(p), RawKeyPointer_deref(q))

\* RawValuePointer::new: <<>> when binary_uvarint faults, <<pointer>> otherwise
RawValuePointer_new(ptr, len, bld) ==
    LET bytes == from_raw_parts(ptr, len)
        r == binary_uvarint(SliceFrom(bytes, EXPIRATION_OFFSET), bld)
    IN  IF r.panic \/ r.n < 0 \/ EXPIRATION_OFFSET + r.n > len THEN <<>>
        ELSE <<[meta |-> bytes[1],
                user_meta |-> bytes[2],
                version |-> U64Zero,
                ptr |-> ptr_add(ptr, EXPIRATION_OFFSET + r.n),
                l |-> len - (EXPIRATION_OFFSET + r.n),
                expires_at |-> r.x]>>

\* RawValuePointer::set_version
set_version(p, version) == [p EXCEPT !.version = version]

\* <RawValuePointer as Deref>::deref
RawValuePointer_deref(p) == from_raw_parts(p.ptr, p.l)

\* PartialEq::eq of RawValuePointer
RawValuePointer_eq(p, q) == p.ptr = q.ptr

(***************************************************************************)
(* Inputs.                                                                 *)
(***************************************************************************)
\* the u64 with the given low digits (least significant first)
U64Low(digits) == [i \in Limbs |-> IF i <= Len(digits) THEN digits[i] ELSE 0]

\* the u64 whose only non-zero digit is the most significant one
U64High(d) == [i \in Limbs |-> IF i = TIMESTAMP_SIZE THEN d ELSE 0]

\* all sequences over S of length 0..n
SeqsUpTo(S, n) == UNION {[1..m -> S] : m \in 0..n}

KeyBytes == {1, 200}
UserKeys == SeqsUpTo(KeyBytes, MaxKeyLen)
Pad == [i \in 1..PadLen |-> 200]
InitKeys == UserKeys \cup {k \o Pad : k \in UserKeys}

\* 0, 1, 256, u64::MAX
TsSamples == {U64Zero, U64Low(<<1>>), U64Low(<<0, 1>>), U64Max}

\* 0, 1, 127, 128, 300, 2^14 - 1, 2^14, 2^56, 2^63 - 1, 2^63, u64::MAX
U64Samples ==
    {U64Zero, U64Low(<<1>>), U64Low(<<127>>), U64Low(<<128>>), U64Low(<<44, 1>>),
     U64Low(<<255, 63>>), U64Low(<<0, 64>>), U64High(1),
     [i \in Limbs |-> IF i = TIMESTAMP_SIZE THEN 127 ELSE 255], U64High(128), U64Max}

\* 0, 127, 128, 300, 2^14, 2^63, u64::MAX
ExpiresSamples ==
    {U64Zero, U64Low(<<127>>), U64Low(<<128>>), U64Low(<<44, 1>>), U64Low(<<0, 64>>),
     U64High(128), U64Max}

PayloadBytes == {104, 128}
Payloads == SeqsUpTo(PayloadBytes, MaxPayloadLen)

Values ==
    [meta : {1, 255}, user_meta : {0, 2}, expires_at : ExpiresSamples,
     version : {U64Zero, U64Low(<<7>>)}, value : Payloads]

\* bytes that follow a varint in a caller's buffer
Trailing == {<<0>>, <<128>>, <<255, 1>>}

BufBytes == {0, 1, 2, 127, 128, 255}
Cont(n, c) == [i \in 1..n |-> c]
RawBufs ==
    SeqsUpTo(BufBytes, MaxBufLen)
    \cup {Cont(n, c) \o t : n \in 0..MaxCont, c \in {128, 255},
                            t \in {<<>>, <<0>>, <<1>>, <<2>>, <<127>>}}

\* user-key bytes a KeyMut is filled with: below, at and above eight bytes
MutKeys == InitKeys \cup {Pad \o Pad}

\* SystemTime values at or after UNIX_EPOCH
SystemTimes == [secs : TsSamples, nanos : {0, 999999999}]

(***************************************************************************)
(* Key family: two keys are built from byte strings, optionally given      *)
(* timestamps, and then handed to one of the key operations.               *)
(***************************************************************************)
NoValueState ==
    /\ val = <<>> /\ sz = <<>> /\ enc = <<>> /\ ev = <<>> /\ dec = <<>>

NoVarintState ==
    /\ x = <<>> /\ vput = <<>> /\ buf = <<>> /\ build = "release"

NoKeyState ==
    /\ ka = <<>> /\ kb = <<>> /\ a = <<>> /\ b = <<>> /\ ts = <<>>

NoPointers == rp = <<>> /\ rq = <<>>

NoMutState == km = <<>> /\ kmk = <<>> /\ stamps = <<>>

ptrVars == <<rp, rq>>
mutVars == <<km, kmk, stamps>>
valueVars == <<val, sz, enc, ev, dec>>
varintVars == <<x, vput, buf, build>>
keyVars == <<ka, kb, a, b, ts>>

\* Key::from(ka), Key::from(kb)
InitKey ==
    /\ kind = "key" /\ pc = "start" /\ out = <<>>
    /\ ka \in InitKeys /\ kb \in InitKeys
    /\ a = ka /\ b = kb /\ ts = <<(<<>>), (<<>>)>>
    /\ NoValueState /\ NoVarintState /\ NoPointers /\ NoMutState

KeyReady == kind = "key" /\ pc \in {"start", "with_timestamp"}

\* a.with_timestamp(t) or b.with_timestamp(t), once per key
WithTimestamp ==
    /\ KeyReady
    /\ \E t \in TsSamples :
          \/ /\ ts[1] = <<>> /\ ts[2] = <<>>
             /\ a' = with_timestamp(a, t)
             /\ ts' = <<(<<t>>), ts[2]>>
             /\ b' = b
          \/ /\ ts[2] = <<>>
             /\ b' = with_timestamp(b, t)
             /\ ts' = <<ts[1], (<<t>>)>>
             /\ a' = a
    /\ pc' = "with_timestamp"
    /\ UNCHANGED <<kind, ptrVars, mutVars, ka, kb, out, valueVars, varintVars>>

\* compare_key(a, b)
CompareKey ==
    /\ KeyReady
    /\ out' = compare_key_in(a, b)
    /\ pc' = "compare_key"
    /\ UNCHANGED <<kind, ptrVars, mutVars, keyVars, valueVars, varintVars>>

\* same_key(a, b)
SameKey ==
    /\ KeyReady
    /\ out' = same_key_in(a, b)
    /\ pc' = "same_key"
    /\ UNCHANGED <<kind, ptrVars, mutVars, keyVars, valueVars, varintVars>>

\* a.parse_key()
ParseKey ==
    /\ KeyReady
    /\ out' = parse_key(a)
    /\ pc' = "parse_key"
    /\ UNCHANGED <<kind, ptrVars, mutVars, keyVars, valueVars, varintVars>>

\* a.parse_timestamp()
ParseTimestamp ==
    /\ KeyReady
    /\ out' = parse_timestamp(a)
    /\ pc' = "parse_timestamp"
    /\ UNCHANGED <<kind, ptrVars, mutVars, keyVars, valueVars, varintVars>>

HasPrefix ==
    /\ KeyReady
    /\ out' = has_prefix(a, b)
    /\ pc' = "has_prefix"
    /\ UNCHANGED <<kind, ptrVars, mutVars, keyVars, valueVars, varintVars>>

HasSuffix ==
    /\ KeyReady
    /\ \E bld \in Builds : out' = has_suffix(a, b, bld)
    /\ pc' = "has_suffix"
    /\ UNCHANGED <<kind, ptrVars, mutVars, keyVars, valueVars, varintVars>>

LongestPrefix ==
    /\ KeyReady
    /\ \E bld \in Builds : out' = longest_prefix(a, b, bld)
    /\ pc' = "longest_prefix"
    /\ UNCHANGED <<kind, ptrVars, mutVars, keyVars, valueVars, varintVars>>

LongestSuffix ==
    /\ KeyReady
    /\ out' = longest_suffix(a, b)
    /\ pc' = "longest_suffix"
    /\ UNCHANGED <<kind, ptrVars, mutVars, keyVars, valueVars, varintVars>>

\* a == b on two keys of one type
KeyEq ==
    /\ KeyReady
    /\ \E ty \in KeyTypes : out' = Key_eq(ty, a, b)
    /\ pc' = "eq"
    /\ UNCHANGED <<kind, ptrVars, mutVars, keyVars, valueVars, varintVars>>

\* a.cmp(&b) on two keys of one type
KeyCmp ==
    /\ KeyReady
    /\ \E ty \in KeyTypes : out' = Key_cmp(ty, a, b)
    /\ pc' = "cmp"
    /\ UNCHANGED <<kind, ptrVars, mutVars, keyVars, valueVars, varintVars>>

\* a.hash(..) and b.hash(..), each into a fresh Hasher
KeyHash ==
    /\ KeyReady
    /\ \E ty \in KeyTypes : out' = <<Key_hash(ty, a), Key_hash(ty, b)>>
    /\ pc' = "hash"
    /\ UNCHANGED <<kind, ptrVars, mutVars, keyVars, valueVars, varintVars>>

\* p views the first key; q views the second key, the first key again, or
\* the first key's buffer with a shorter length.  Both keys stay alive.
RawKeyPointers ==
    /\ KeyReady
    /\ Len(a) > 0 /\ Len(b) > 0
    /\ rp' = <<RawKeyPointer_from("a")>>
    /\ rq' \in {<<RawKeyPointer_from("b")>>,
                <<RawKeyPointer_from("a")>>,
                <<RawKeyPointer_new(as_ptr("a"), Len(a) - 1)>>}
    /\ pc' = "raw_key_pointer"
    /\ UNCHANGED <<kind, mutVars, keyVars, valueVars, varintVars, out>>

\* p == q
RawKeyPointerEq ==
    /\ kind = "key" /\ pc = "raw_key_pointer"
    /\ out' = RawKeyPointer_eq(rp[1], rq[1])
    /\ pc' = "raw_key_eq"
    /\ UNCHANGED <<kind, ptrVars, mutVars, keyVars, valueVars, varintVars>>

\* p.cmp(&q)
RawKeyPointerCmp ==
    /\ kind = "key" /\ pc = "raw_key_pointer"
    /\ out' = RawKeyPointer_cmp(rp[1], rq[1])
    /\ pc' = "raw_key_cmp"
    /\ UNCHANGED <<kind, ptrVars, mutVars, keyVars, valueVars, varintVars>>

(***************************************************************************)
(* Builder family: a KeyMut is filled with user-key bytes, given           *)
(* timestamps and frozen; or the same bytes are stamped by                 *)
(* Key::with_system_time.  stamps logs the stamping calls made.            *)
(***************************************************************************)
\* KeyMut::new() filled through DerefMut with the user-key bytes
InitKeyMut ==
    /\ kind = "keymut" /\ pc = "start" /\ out = <<>>
    /\ kmk \in MutKeys /\ km = kmk /\ stamps = <<>>
    /\ NoKeyState /\ NoValueState /\ NoVarintState /\ NoPointers

\* km = km.with_timestamp(t)
KeyMutWithTimestamp ==
    /\ kind = "keymut" /\ pc = "start"
    /\ \E t \in TsSamples :
          /\ km' = KeyMut_with_timestamp(km, t)
          /\ stamps' = Append(stamps, [op |-> "with_timestamp", ts |-> t])
    /\ pc' = "with_timestamp"
    /\ UNCHANGED <<kind, ptrVars, kmk, keyVars, valueVars, varintVars, out>>

\* km.set_timestamp(t)
SetTimestamp ==
    /\ kind = "keymut" /\ pc \in {"start", "set_timestamp"}
    /\ Len(stamps) < MaxStamps
    /\ \E t \in TsSamples :
          /\ km' = set_timestamp(km, t)
          /\ stamps' = Append(stamps, [op |-> "set_timestamp", ts |-> t])
    /\ pc' = "set_timestamp"
    /\ UNCHANGED <<kind, ptrVars, kmk, keyVars, valueVars, varintVars, out>>

\* km.freeze()
Freeze ==
    /\ kind = "keymut" /\ pc \in {"with_timestamp", "set_timestamp"}
    /\ out' = freeze(km)
    /\ pc' = "freeze"
    /\ UNCHANGED <<kind, ptrVars, mutVars, keyVars, valueVars, varintVars>>

\* Key::from(k).with_system_time(st)
WithSystemTime ==
    /\ kind = "keymut" /\ pc = "start"
    /\ \E st \in SystemTimes :
          /\ out' = with_system_time(kmk, st)
          /\ stamps' = Append(stamps, [op |-> "with_system_time", ts |-> as_secs(st)])
    /\ pc' = "with_system_time"
    /\ UNCHANGED <<kind, ptrVars, km, kmk, keyVars, valueVars, varintVars>>

(***************************************************************************)
(* Value family: a Value is sized, encoded and decoded again.              *)
(***************************************************************************)
InitValue ==
    /\ kind = "value" /\ pc = "start" /\ out = <<>>
    /\ val \in Values /\ build \in Builds
    /\ sz = <<>> /\ enc = <<>> /\ ev = <<>> /\ dec = <<>>
    /\ NoKeyState /\ x = <<>> /\ vput = <<>> /\ buf = <<>>
    /\ NoPointers /\ NoMutState

\* val.encoded_size()
EncodedSize ==
    /\ kind = "value" /\ pc = "start"
    /\ sz' = <<encoded_size(val)>>
    /\ pc' = "encoded_size"
    /\ UNCHANGED <<kind, ptrVars, mutVars, keyVars, val, enc, ev, dec, varintVars, out>>

\* val.encode(buf)
Encode ==
    /\ kind = "value" /\ pc \in {"start", "encoded_size"}
    /\ enc' = <<encode(val)>>
    /\ pc' = "encode"
    /\ UNCHANGED <<kind, ptrVars, mutVars, keyVars, val, sz, ev, dec, varintVars, out>>

\* val.to_encoded()
ToEncoded ==
    /\ kind = "value" /\ pc \in {"start", "encoded_size"}
    /\ ev' = <<to_encoded(val)>>
    /\ pc' = "to_encoded"
    /\ UNCHANGED <<kind, ptrVars, mutVars, keyVars, val, sz, enc, dec, varintVars, out>>

\* Value::decode(&buf)
Decode ==
    /\ kind = "value" /\ pc = "encode"
    /\ dec' = decode(enc[1], build)
    /\ pc' = "decode"
    /\ UNCHANGED <<kind, ptrVars, mutVars, keyVars, val, sz, enc, ev, varintVars, out>>

\* Value::decode_bytes(Bytes::from(buf))
DecodeBytes ==
    /\ kind = "value" /\ pc = "encode"
    /\ dec' = decode_bytes(enc[1], build)
    /\ pc' = "decode_bytes"
    /\ UNCHANGED <<kind, ptrVars, mutVars, keyVars, val, sz, enc, ev, varintVars, out>>

\* val.to_encoded().decode_value()
DecodeValue ==
    /\ kind = "value" /\ pc = "to_encoded"
    /\ dec' = decode_value(ev[1], build)
    /\ pc' = "decode_value"
    /\ UNCHANGED <<kind, ptrVars, mutVars, keyVars, val, sz, enc, ev, varintVars, out>>

\* e.parse_value()
EncodedParseValue ==
    /\ kind = "value" /\ pc = "to_encoded"
    /\ out' = encoded_parse_value(ev[1])
    /\ pc' = "encoded_parse_value"
    /\ UNCHANGED <<kind, ptrVars, mutVars, keyVars, valueVars, varintVars>>

\* e.get_meta()
EncodedGetMeta ==
    /\ kind = "value" /\ pc = "to_encoded"
    /\ out' = encoded_get_meta(ev[1])
    /\ pc' = "encoded_get_meta"
    /\ UNCHANGED <<kind, ptrVars, mutVars, keyVars, valueVars, varintVars>>

\* e.get_user_meta()
EncodedGetUserMeta ==
    /\ kind = "value" /\ pc = "to_encoded"
    /\ out' = encoded_get_user_meta(ev[1])
    /\ pc' = "encoded_get_user_meta"
    /\ UNCHANGED <<kind, ptrVars, mutVars, keyVars, valueVars, varintVars>>

\* e.get_expires_at()
EncodedGetExpiresAt ==
    /\ kind = "value" /\ pc = "to_encoded"
    /\ out' = encoded_get_expires_at(ev[1], build)
    /\ pc' = "encoded_get_expires_at"
    /\ UNCHANGED <<kind, ptrVars, mutVars, keyVars, valueVars, varintVars>>

\* e.len()
EncodedLen ==
    /\ kind = "value" /\ pc = "to_encoded"
    /\ out' = encoded_len(ev[1])
    /\ pc' = "encoded_len"
    /\ UNCHANGED <<kind, ptrVars, mutVars, keyVars, valueVars, varintVars>>

\* p views the encoded buffer; q views the same buffer or a copy of it,
\* and may be given a version
RawValuePointers ==
    /\ kind = "value" /\ pc = "encode"
    /\ rp' = RawValuePointer_new(as_ptr("enc"), Len(enc[1]), build)
    /\ \E id \in {"enc", "copy"}, setv \in BOOLEAN :
          LET q == RawValuePointer_new(as_ptr(id), Len(Allocation(id)), build)
          IN  rq' = IF setv /\ q # <<>>
                    THEN <<set_version(q[1], U64Low(<<7>>))>>
                    ELSE q
    /\ pc' = "raw_value_pointer"
    /\ UNCHANGED <<kind, mutVars, keyVars, valueVars, varintVars, out>>

\* p == q
RawValuePointerEq ==
    /\ kind = "value" /\ pc = "raw_value_pointer"
    /\ rp # <<>> /\ rq # <<>>
    /\ out' = RawValuePointer_eq(rp[1], rq[1])
    /\ pc' = "raw_value_eq"
    /\ UNCHANGED <<kind, ptrVars, mutVars, keyVars, valueVars, varintVars>>

\* let bytes: Bytes = val.into()
IntoBytes ==
    /\ kind = "value" /\ pc = "start"
    /\ out' = into_bytes(val)
    /\ pc' = "into_bytes"
    /\ UNCHANGED <<kind, ptrVars, mutVars, keyVars, valueVars, varintVars>>

\* Value::decode_bytes(bytes) on the converted bytes
DecodeConverted ==
    /\ kind = "value" /\ pc = "into_bytes"
    /\ dec' = decode_bytes(out, build)
    /\ pc' = "decode_converted"
    /\ UNCHANGED <<kind, ptrVars, mutVars, keyVars, val, sz, enc, ev, varintVars, out>>

(***************************************************************************)
(* Varint family: either a u64 is encoded, the buffer possibly extended,   *)
(* and decoded again, or an arbitrary buffer is decoded.                   *)
(***************************************************************************)
InitVarint ==
    /\ kind = "varint" /\ pc = "start" /\ out = <<>>
    /\ build \in Builds
    /\ \/ x \in {<<u>> : u \in U64Samples} /\ buf = <<>>
       \/ x = <<>> /\ buf \in RawBufs
    /\ vput = <<>>
    /\ NoKeyState /\ NoValueState /\ NoPointers /\ NoMutState

\* put_binary_uvarint_to_vec(&mut vec, x) on an empty vec
PutUvarint ==
    /\ kind = "varint" /\ pc = "start" /\ x # <<>>
    /\ vput' = put_binary_uvarint_to_vec(<<>>, x[1])
    /\ buf' = vput'
    /\ pc' = "put_binary_uvarint_to_vec"
    /\ UNCHANGED <<kind, ptrVars, mutVars, keyVars, valueVars, x, build, out>>

\* binary_uvarint_allocate(x)
UvarintAllocate ==
    /\ kind = "varint" /\ pc = "start" /\ x # <<>>
    /\ vput' = binary_uvarint_allocate(x[1])
    /\ buf' = vput'
    /\ pc' = "binary_uvarint_allocate"
    /\ UNCHANGED <<kind, ptrVars, mutVars, keyVars, valueVars, x, build, out>>

\* the caller appends further bytes to the buffer
AppendTrailing ==
    /\ kind = "varint"
    /\ pc \in {"put_binary_uvarint_to_vec", "binary_uvarint_allocate"}
    /\ \E t \in Trailing : buf' = buf \o t
    /\ pc' = "append"
    /\ UNCHANGED <<kind, ptrVars, mutVars, keyVars, valueVars, x, vput, build, out>>

\* binary_uvarint(&buf)
BinaryUvarint ==
    /\ kind = "varint"
    /\ \/ pc = "start" /\ x = <<>>
       \/ pc \in {"put_binary_uvarint_to_vec", "binary_uvarint_allocate", "append"}
    /\ out' = binary_uvarint(buf, build)
    /\ pc' = "binary_uvarint"
    /\ UNCHANGED <<kind, ptrVars, mutVars, keyVars, valueVars, varintVars>>

Init == InitKey \/ InitValue \/ InitVarint \/ InitKeyMut

Next ==
    \/ WithTimestamp
    \/ CompareKey
    \/ SameKey
    \/ ParseKey
    \/ ParseTimestamp
    \/ HasPrefix
    \/ HasSuffix
    \/ LongestPrefix
    \/ LongestSuffix
    \/ KeyEq
    \/ KeyCmp
    \/ KeyHash
    \/ RawKeyPointers
    \/ RawKeyPointerEq
    \/ RawKeyPointerCmp
    \/ KeyMutWithTimestamp
    \/ SetTimestamp
    \/ Freeze
    \/ WithSystemTime
    \/ EncodedSize
    \/ Encode
    \/ ToEncoded
    \/ Decode
    \/ DecodeBytes
    \/ DecodeValue
    \/ EncodedParseValue
    \/ EncodedGetMeta
    \/ EncodedGetUserMeta
    \/ EncodedGetExpiresAt
    \/ EncodedLen
    \/ RawValuePointers
    \/ RawValuePointerEq
    \/ IntoBytes
    \/ DecodeConverted
    \/ PutUvarint
    \/ UvarintAllocate
    \/ AppendTrailing
    \/ BinaryUvarint

Spec == Init /\ [][Next]_vars

(***************************************************************************)
(* Properties.                                                             *)
(***************************************************************************)
\* s sorts strictly before t in the lexicographic order of byte strings
LexLess(s, t) ==
    \E i \in 1..Len(t) :
        /\ \A j \in 1..(i - 1) : j <= Len(s) /\ s[j] = t[j]
        /\ \/ i = Len(s) + 1
           \/ i <= Len(s) /\ s[i] < t[i]

LexOrder(s, t) ==
    IF s = t THEN "Equal" ELSE IF LexLess(s, t) THEN "Less" ELSE "Greater"

\* the user key of an operand: all but the trailing eight bytes, or the
\* whole operand when it is shorter than eight bytes
UserPart(s) ==
    IF Len(s) < TIMESTAMP_SIZE THEN s ELSE SubSeq(s, 1, Len(s) - TIMESTAMP_SIZE)

\* the timestamp suffix of an operand: its trailing eight bytes, or nothing
\* when it is shorter than eight bytes
SuffixPart(s) ==
    IF Len(s) < TIMESTAMP_SIZE THEN <<>>
    ELSE SubSeq(s, Len(s) - TIMESTAMP_SIZE + 1, Len(s))

BothStamped == ts[1] # <<>> /\ ts[2] # <<>>

\* C1: compare_key on two keys built by with_timestamp orders them by the
\* lexicographic order of their user keys when these differ, whatever the
\* timestamps, and by descending timestamp when the user keys are equal.
C1_CompareStamped ==
    (pc = "compare_key" /\ BothStamped) =>
        out = IF ka # kb THEN LexOrder(ka, kb)
              ELSE IF U64Lt(ts[2][1], ts[1][1]) THEN "Less"
              ELSE IF ts[1][1] = ts[2][1] THEN "Equal"
              ELSE "Greater"

C1_Witness ==
    /\ pc = "compare_key" /\ BothStamped
    /\ ka = kb /\ Len(ka) > 0
    /\ U64Lt(ts[2][1], ts[1][1])
    /\ out = "Less"

\* C2: same_key(a, b) is true exactly when a and b have equal length and
\* equal user keys, for operands of every length.
C2_SameKeyIff ==
    pc = "same_key" =>
        out = (Len(a) = Len(b) /\ UserPart(a) = UserPart(b))

\* C3: compare_key treats an operand shorter than eight bytes as all user
\* key with an empty suffix: user keys are compared first, suffixes on a tie.
C3_ShortOperandAllPrefix ==
    (pc = "compare_key" /\ (Len(a) < TIMESTAMP_SIZE \/ Len(b) < TIMESTAMP_SIZE)) =>
        out = IF UserPart(a) # UserPart(b)
              THEN LexOrder(UserPart(a), UserPart(b))
              ELSE LexOrder(SuffixPart(a), SuffixPart(b))

\* C4 as stated: parse_key returns the first len - 8 bytes of a key longer
\* than eight bytes and the whole key when its length is at most eight.
C4_ParseKeyWholeUpTo8 ==
    pc = "parse_key" =>
        out = IF Len(a) > TIMESTAMP_SIZE
              THEN SubSeq(a, 1, Len(a) - TIMESTAMP_SIZE)
              ELSE a

\* C4 as amended: parse_key returns the first len - 8 bytes of a key of
\* eight bytes or more (nothing for exactly eight) and the whole key when
\* it is shorter than eight bytes.
C4_ParseKeyWholeBelow8 ==
    pc = "parse_key" =>
        out = IF Len(a) >= TIMESTAMP_SIZE
              THEN SubSeq(a, 1, Len(a) - TIMESTAMP_SIZE)
              ELSE a

C4_Witness ==
    /\ pc = "parse_key"
    /\ Len(a) = TIMESTAMP_SIZE /\ ts[1] = <<>>
    /\ out = <<>>

\* the number whose big-endian bytes are s, digit by digit
BigEndianValue(s) == [i \in Limbs |-> s[TIMESTAMP_SIZE + 1 - i]]

\* u64::MAX - n, digit by digit
MaxMinus(n) == [i \in Limbs |-> 255 - n[i]]

U64Bit(n, k) == IF k < 8 * TIMESTAMP_SIZE THEN BitOf(n[(k \div 8) + 1], k % 8) ELSE 0

\* the number of 7-bit groups an unsigned LEB128 encoding of n needs
Leb128Len(n) ==
    CHOOSE m \in 1..MAX_VARINT_LEN64 :
        /\ \A k \in 0..(8 * TIMESTAMP_SIZE - 1) : k >= 7 * m => U64Bit(n, k) = 0
        /\ \/ m = 1
           \/ \E k \in 0..(8 * TIMESTAMP_SIZE - 1) : k >= 7 * (m - 1) /\ U64Bit(n, k) = 1

\* the j-th 7-bit group of n (0 = least significant)
Leb128Group(n, j) ==
    U64Bit(n, 7 * j) + 2 * U64Bit(n, 7 * j + 1) + 4 * U64Bit(n, 7 * j + 2)
    + 8 * U64Bit(n, 7 * j + 3) + 16 * U64Bit(n, 7 * j + 4)
    + 32 * U64Bit(n, 7 * j + 5) + 64 * U64Bit(n, 7 * j + 6)

\* the unsigned LEB128 encoding of n: 7 data bits per byte, least
\* significant group first, the top bit set on every byte but the last
Leb128(n) ==
    [j \in 1..Leb128Len(n) |->
        Leb128Group(n, j - 1) + IF j < Leb128Len(n) THEN 128 ELSE 0]

Decoded == pc \in {"decode", "decode_bytes", "decode_value"}

\* C6: decoding the bytes that encoding a Value produced (decode,
\* decode_bytes, or decode_value on to_encoded) gives back its meta,
\* user_meta, expires_at and payload, with version 0.
C6_DecodeEncode ==
    Decoded => dec = <<[val EXCEPT !.version = U64Zero]>>

C6_Witness ==
    /\ pc = "decode_value"
    /\ val.version # U64Zero /\ val.expires_at = U64Max /\ Len(val.value) > 0
    /\ dec # <<>>
    /\ dec[1].version = U64Zero /\ dec[1].value = val.value

\* the serialized form: meta, user_meta, varint(expires_at), payload
Serialized(v) == <<v.meta, v.user_meta>> \o Leb128(v.expires_at) \o v.value

\* C7: encode writes, and to_encoded holds, exactly meta, user_meta,
\* varint(expires_at) and the payload, in that order; version contributes
\* nothing.
C7_Layout ==
    /\ (kind = "value" /\ enc # <<>>) => enc[1] = Serialized(val)
    /\ (kind = "value" /\ ev # <<>>) => ev[1].data = Serialized(val)

C7_Witness ==
    /\ pc = "encode"
    /\ val.version # U64Zero /\ val.expires_at = U64Low(<<44, 1>>)
    /\ enc[1] = <<val.meta, val.user_meta, 172, 2>> \o val.value
    /\ Len(val.value) > 0

C9_VarintRoundTrip ==
    (pc = "binary_uvarint" /\ x # <<>>) =>
        /\ out = [panic |-> FALSE, x |-> x[1], n |-> Len(vput)]
        /\ Len(vput) <= MAX_VARINT_LEN64

C9_Witness ==
    /\ pc = "binary_uvarint" /\ x = <<U64Max>>
    /\ Len(buf) > Len(vput)
    /\ out.x = U64Max /\ out.n = MAX_VARINT_LEN64

\* the 1-based position of the first byte without the continuation bit, or
\* 0 when every byte has it
FirstTerminator(s) ==
    IF \A i \in 1..Len(s) : s[i] >= 128 THEN 0
    ELSE CHOOSE i \in 1..Len(s) : s[i] < 128 /\ \A j \in 1..(i - 1) : s[j] >= 128

\* the encoding in s is larger than 64 bits: it runs past 10 bytes, or its
\* 10th byte is a terminator greater than 1
Overflows(s) ==
    LET p == FirstTerminator(s)
    IN  \/ p > MAX_VARINT_LEN64
        \/ p = MAX_VARINT_LEN64 /\ s[p] > 1
        \/ p = 0 /\ Len(s) > MAX_VARINT_LEN64

\* C10: for every buffer, binary_uvarint returns without faulting one of
\* (x, n) with 1 <= n <= 10 for a well-formed encoding, (0, 0) exactly when
\* the buffer ends before a terminating byte, and (0, !read) whenever the
\* encoded value is larger than 64 bits.
C10_ThreeOutcomes ==
    pc = "binary_uvarint" =>
        /\ ~out.panic
        /\ LET p == FirstTerminator(buf)
           IN  IF Overflows(buf)
               THEN out.x = U64Zero /\ \E k \in 1..Len(buf) : out.n = UsizeNot(k)
               ELSE IF p = 0
               THEN out.x = U64Zero /\ out.n = 0
               ELSE out.n = p /\ 1 <= p /\ p <= MAX_VARINT_LEN64

\* p is a prefix of s
IsPrefix(p, s) ==
    /\ Len(p) <= Len(s)
    /\ \A i \in 1..Len(p) : p[i] = s[i]

\* p is a suffix of s
IsSuffix(p, s) ==
    /\ Len(p) <= Len(s)
    /\ \A i \in 1..Len(p) : p[i] = s[Len(s) - Len(p) + i]

\* C12: has_prefix(a, b) is true exactly when parse_key(b) is a prefix of
\* parse_key(a); so it is true for b = parse_key(a) and whenever the
\* stripped prefix is empty.
C12_HasPrefix ==
    (kind = "key" /\ pc = "has_prefix") =>
        /\ out = IsPrefix(parse_key(b), parse_key(a))
        /\ (b = parse_key(a) => out = TRUE)
        /\ (parse_key(b) = <<>> => out = TRUE)

\* has_prefix(a, parse_key(a)) was called on a stamped key with a non-empty
\* user key, and answered true
C12_Witness ==
    /\ kind = "key" /\ pc = "has_prefix"
    /\ ts[1] # <<>> /\ ts[2] = <<>>
    /\ b = parse_key(a) /\ Len(b) = TIMESTAMP_SIZE - 1
    /\ parse_key(b) # <<>>
    /\ out = TRUE

\* C13: has_suffix(a, b) returns, without a fault, whether parse_key(b) is
\* a suffix of parse_key(a); that covers the empty stripped suffix and a
\* suffix shorter than half of the source.
C13_HasSuffix ==
    (kind = "key" /\ pc = "has_suffix") =>
        /\ ~out.panic
        /\ out.v = IsSuffix(parse_key(b), parse_key(a))

\* C14: longest_prefix(a, b) returns, without a fault, the longest common
\* prefix of parse_key(a) and parse_key(b): a common prefix of both that no
\* longer common prefix extends.
C14_LongestPrefix ==
    (kind = "key" /\ pc = "longest_prefix") =>
        /\ ~out.panic
        /\ IsPrefix(out.v, parse_key(a))
        /\ IsPrefix(out.v, parse_key(b))
        /\ \A n \in 0..Len(parse_key(a)) :
              (/\ n > Len(out.v)
               /\ IsPrefix(SubSeq(parse_key(a), 1, n), parse_key(b))) => FALSE
        /\ (a = b => out.v = parse_key(a))

\* the last n bytes of s
LastBytes(s, n) == SubSeq(s, Len(s) - n + 1, Len(s))

\* C15: longest_suffix(a, b) is the longest common suffix of parse_key(a)
\* and parse_key(b), a tail of parse_key(a); it is empty when the last
\* bytes differ or when either stripped key is empty.
C15_LongestSuffix ==
    (kind = "key" /\ pc = "longest_suffix") =>
        /\ IsSuffix(out, parse_key(a))
        /\ IsSuffix(out, parse_key(b))
        /\ \A n \in 0..Len(parse_key(a)) :
              (/\ n > Len(out)
               /\ IsSuffix(LastBytes(parse_key(a), n), parse_key(b))) => FALSE
        /\ (parse_key(a) = <<>> \/ parse_key(b) = <<>> => out = <<>>)
        /\ ((/\ parse_key(a) # <<>>
              /\ parse_key(b) # <<>>
              /\ parse_key(a)[Len(parse_key(a))] # parse_key(b)[Len(parse_key(b))])
             => out = <<>>)

\* longest_suffix was called with a stripped first key longer than the
\* second, sharing some but not all of the second's bytes
C15_Witness ==
    /\ kind = "key" /\ pc = "longest_suffix"
    /\ Len(parse_key(a)) > Len(parse_key(b))
    /\ Len(out) > 0 /\ Len(out) < Len(parse_key(b))

OnlyCalls(op) == \A i \in 1..Len(stamps) : stamps[i].op = op

\* C17: every operation that writes a timestamp writes the suffix of
\* Key::with_timestamp: KeyMut::with_timestamp(ts).freeze(), set_timestamp(ts)
\* then freeze, and Key::with_system_time(st) are byte-identical to
\* Key::from(k).with_timestamp(ts), ts being st's seconds since the epoch.
C17_SameSuffixEverywhere ==
    /\ (kind = "keymut" /\ pc = "freeze" /\ Len(stamps) = 1) =>
           out = with_timestamp(kmk, stamps[1].ts)
    /\ (kind = "keymut" /\ pc = "with_system_time") =>
           out = with_timestamp(kmk, stamps[1].ts)

\* C18: a KeyMut holding user bytes k of any length and no timestamp, after
\* any non-empty sequence of set_timestamp calls, holds k followed by
\* exactly eight bytes that encode the last call's timestamp; k is never
\* modified, the first call grows the buffer by 8 and later calls do not.
C18_SetTimestampAppendsThenPatches ==
    (kind = "keymut" /\ pc = "set_timestamp" /\ OnlyCalls("set_timestamp")) =>
        /\ Len(km) = Len(kmk) + TIMESTAMP_SIZE
        /\ SliceTo(km, Len(kmk)) = kmk
        /\ SliceFrom(km, Len(kmk)) \in
              {ToBeBytes(stamps[Len(stamps)].ts),
               ToBeBytes(MaxMinus(stamps[Len(stamps)].ts))}

\* C19: for Key, KeyRef and KeyMut, a == b holds exactly when a.cmp(b) is
\* Equal; two keys with the same user key and different timestamps are not
\* equal.
C19_EqConsistentWithCmp ==
    /\ (kind = "key" /\ pc = "eq") =>
          /\ \A ty \in KeyTypes : out = (Key_cmp(ty, a, b) = "Equal")
          /\ (BothStamped /\ ka = kb /\ ts[1] # ts[2]) => out = FALSE
    /\ (kind = "key" /\ pc = "cmp") =>
          \A ty \in KeyTypes : (out = "Equal") = Key_eq(ty, a, b)

\* C20: for Key and KeyMut, a == b implies that a and b write the same
\* bytes to a Hasher, and so hash alike; that includes keys with the same
\* user key and different timestamps.
C20_HashConsistentWithEq ==
    (kind = "key" /\ pc = "hash") =>
        \A ty \in {"Key", "KeyMut"} : Key_eq(ty, a, b) => out[1] = out[2]

\* the fields of two RawValuePointers that are read from the encoding
SameEncodedFields(p, q) ==
    /\ p.meta = q.meta /\ p.user_meta = q.user_meta
    /\ p.expires_at = q.expires_at
    /\ RawValuePointer_deref(p) = RawValuePointer_deref(q)

\* C11: equality and ordering of the raw pointer types go by value: for
\* RawKeyPointers p, q, p == q exactly when same_key holds of the bytes they
\* view and p.cmp(q) is compare_key of those bytes, whatever the addresses;
\* RawValuePointers are equal when all their value fields are, and unequal
\* when a field read from the encoding differs.
C11_RawPointersByValue ==
    /\ (kind = "key" /\ pc = "raw_key_eq") =>
          out = same_key_in(RawKeyPointer_deref(rp[1]), RawKeyPointer_deref(rq[1]))
    /\ (kind = "key" /\ pc = "raw_key_cmp") =>
          out = compare_key_in(RawKeyPointer_deref(rp[1]), RawKeyPointer_deref(rq[1]))
    /\ (kind = "value" /\ pc = "raw_value_eq") =>
          /\ (SameEncodedFields(rp[1], rq[1]) /\ rp[1].version = rq[1].version)
                => out = TRUE
          /\ ~SameEncodedFields(rp[1], rq[1]) => out = FALSE

\* C21: converting a Value into Bytes yields the bytes of encode and of
\* to_encoded, and decode of the converted bytes gives back the Value's
\* meta, user_meta, expires_at and payload.
C21_IntoBytesIsEncode ==
    /\ (kind = "value" /\ pc = "into_bytes") =>
          /\ out = encode(val)
          /\ out = to_encoded(val).data
    /\ (kind = "value" /\ pc = "decode_converted") =>
          /\ dec # <<>>
          /\ dec[1].meta = val.meta
          /\ dec[1].user_meta = val.user_meta
          /\ dec[1].expires_at = val.expires_at
          /\ dec[1].value = val.value

\* C22: for every user key k, the empty one included, and every ts, the key
\* with_timestamp(k, ts) has len(k) + 8 bytes, parse_key of it is k and
\* parse_timestamp of it is ts.
C22_WithTimestampRoundTrip ==
    /\ (kind = "key" /\ ts[1] # <<>>) => Len(a) = Len(ka) + TIMESTAMP_SIZE
    /\ (kind = "key" /\ pc = "parse_key" /\ ts[1] # <<>>) => out = ka
    /\ (kind = "key" /\ pc = "parse_timestamp" /\ ts[1] # <<>>) => out = ts[1][1]

\* byte strings of every kind the model builds: short ones, ones of eight
\* bytes, and stamped ones
KeyUniverse == InitKeys \cup {with_timestamp(k, t) : k \in UserKeys, t \in TsSamples}

\* Ordering::reverse
Reverse(o) == IF o = "Less" THEN "Greater" ELSE IF o = "Greater" THEN "Less" ELSE o

\* C23: compare_key is a total order on byte strings of every length: it
\* always answers Less, Equal or Greater, compare_key(b, a) is the reverse
\* of compare_key(a, b), it is transitive, and it answers Equal exactly for
\* identical byte strings.
C23_CompareKeyTotalOrder ==
    (kind = "key" /\ pc = "compare_key") =>
        /\ out \in {"Less", "Equal", "Greater"}
        /\ out = Reverse(compare_key_in(b, a))
        /\ (out = "Equal") = (a = b)
        /\ \A c \in KeyUniverse :
              /\ (out = "Less" /\ compare_key_in(b, c) \in {"Less", "Equal"})
                    => compare_key_in(a, c) = "Less"
              /\ (out = "Equal" /\ compare_key_in(b, c) = "Less")
                    => compare_key_in(a, c) = "Less"
              /\ (out = "Greater" /\ compare_key_in(b, c) \in {"Greater", "Equal"})
                    => compare_key_in(a, c) = "Greater"

\* compare_key put a key shorter than eight bytes below a stamped key with a
\* different user key, and a further stamped key lies above both
C23_Witness ==
    /\ kind = "key" /\ pc = "compare_key"
    /\ Len(a) < TIMESTAMP_SIZE /\ Len(a) > 0
    /\ ts[2] # <<>> /\ ka # kb
    /\ out = "Less"
    /\ \E c \in KeyUniverse :
          /\ Len(c) > TIMESTAMP_SIZE
          /\ compare_key_in(b, c) = "Less"
          /\ compare_key_in(a, c) = "Less"

====
